---- MODULE Spec2Model ----
(***************************************************************************)
(* CleanText-AI: the Markdown-to-plain-text normaliser markdownToHuman and *)
(* its statistics companion getStats.                                      *)
(*                                                                         *)
(* A JavaScript string is modelled as a sequence of characters, a          *)
(* character as a one-character TLA+ string.  Three characters are named:  *)
(* NL (the line feed), BS (the backslash) and BT (the backtick, written    *)
(* "bt" because a TLA+ string cannot hold a backtick).                     *)
(*                                                                         *)
(* Positions are 1-based.  A regular expression is modelled by an operator *)
(* XxxMatch(s, i) giving the position just after the match that the        *)
(* backtracking matcher finds when it starts at position i of s, or 0      *)
(* when it finds none there, and by an operator XxxReplacement(s, i, e)    *)
(* giving the text that replaces the match s[i..e-1].                      *)
(***************************************************************************)
EXTENDS Integers, Sequences, FiniteSets, TLC

VARIABLES
    text,            \* markdownToHuman's parameter, getStats' original
    result,          \* markdownToHuman's return value, getStats' cleaned
    stats,           \* getStats' return value
    pc,              \* the position of the caller of the two functions
    inputMarkdown,   \* App: the state inputMarkdown
    outputText,      \* App: the state outputText
    effectPending,   \* App: inputMarkdown has changed and its effect has not run yet
    isProcessing,    \* App: the state isProcessing, a sample request is in flight
    isPolishing,     \* App: the state isPolishing, a polish request is in flight
    polishText,      \* App: the text the polish request in flight was sent with
    outputOrigin,    \* history: the inputMarkdown that outputText was computed from
    polishOrigin     \* history: outputOrigin when the polish request was sent

callVars == <<text, result, stats, pc>>

appVars ==
    <<inputMarkdown, outputText, effectPending, isProcessing, isPolishing, polishText,
      outputOrigin, polishOrigin>>

vars == <<callVars, appVars>>

-----------------------------------------------------------------------------
(* Characters *)

NL == "\n"
TAB == "\t"
SP == " "
BS == "\\"
BT == "bt"

\* \s of the regular expressions and the characters trim() strips
Whitespace == {SP, TAB, NL}

\* the characters the regular expression "." does not match
LineTerminators == {NL}

Digits == {"0", "1", "2", "3", "4", "5", "6", "7", "8", "9"}

-----------------------------------------------------------------------------
(* Matching primitives *)

\* the pattern p occurs in s at position i
HasAt(s, i, p) ==
    /\ i >= 1
    /\ i + Len(p) - 1 <= Len(s)
    /\ \A k \in 1..Len(p) : s[i + k - 1] = p[k]

\* "^" under the m flag: the start of the text or just after a line terminator
AtLineStart(s, i) == i = 1 \/ s[i - 1] \in LineTerminators

\* "$" under the m flag: the end of the text or just before a line terminator
AtLineEnd(s, i) == i = Len(s) + 1 \/ (i <= Len(s) /\ s[i] \in LineTerminators)

\* a greedy run c* over the characters of S, from position i: the position after it
RECURSIVE RunEnd(_, _, _)
RunEnd(s, i, S) ==
    IF i <= Len(s) /\ s[i] \in S THEN RunEnd(s, i + 1, S) ELSE i

\* a lazy ".*?" followed by the literal p, from position j: the least position of p
\* that is reached without crossing a line terminator, or 0
RECURSIVE DotLazy(_, _, _)
DotLazy(s, j, p) ==
    IF HasAt(s, j, p) THEN j
    ELSE IF j > Len(s) \/ s[j] \in LineTerminators THEN 0
    ELSE DotLazy(s, j + 1, p)

\* a lazy "[\s\S]*?" followed by the literal p, from position j: the least position
\* of p, line terminators crossed, or 0
RECURSIVE AnyLazy(_, _, _)
AnyLazy(s, j, p) ==
    IF HasAt(s, j, p) THEN j
    ELSE IF j > Len(s) THEN 0
    ELSE AnyLazy(s, j + 1, p)

-----------------------------------------------------------------------------
\* 1. /^\s*#+\s*/gm -> ''

HeadingMatch(s, i) ==
    LET h == RunEnd(s, i, Whitespace)
        t == RunEnd(s, h, {"#"})
    IN  IF AtLineStart(s, i) /\ t > h THEN RunEnd(s, t, Whitespace) ELSE 0

HeadingReplacement(s, i, e) == <<>>

\* 2. /(\*\*|__)(.*?)\1/g -> '$2'

StrongMarkerAt(s, i) ==
    IF HasAt(s, i, <<"*", "*">>) THEN <<"*", "*">>
    ELSE IF HasAt(s, i, <<"_", "_">>) THEN <<"_", "_">>
    ELSE <<>>

StrongMatch(s, i) ==
    LET m == StrongMarkerAt(s, i)
        j == IF m = <<>> THEN 0 ELSE DotLazy(s, i + 2, m)
    IN  IF j = 0 THEN 0 ELSE j + 2

StrongReplacement(s, i, e) == SubSeq(s, i + 2, e - 3)

\*    /(\*|_)(.*?)\1/g -> '$2'

WeakMatch(s, i) ==
    LET j == IF i <= Len(s) /\ s[i] \in {"*", "_"}
             THEN DotLazy(s, i + 1, <<s[i]>>) ELSE 0
    IN  IF j = 0 THEN 0 ELSE j + 1

WeakReplacement(s, i, e) == SubSeq(s, i + 1, e - 2)

\* 3. /\[(.*?)\]\((.*?)\)/g -> '$1 ($2)'

\* the lazy label "(.*?)" followed by "](", "(.*?)" and ")", from position j: the
\* least position of a "](" after which the rest of the pattern matches, or 0
RECURSIVE LabelEnd(_, _)
LabelEnd(s, j) ==
    IF HasAt(s, j, <<"]", "(">>) /\ DotLazy(s, j + 2, <<")">>) # 0 THEN j
    ELSE IF j > Len(s) \/ s[j] \in LineTerminators THEN 0
    ELSE LabelEnd(s, j + 1)

LinkMatch(s, i) ==
    LET j == IF HasAt(s, i, <<"[">>) THEN LabelEnd(s, i + 1) ELSE 0
    IN  IF j = 0 THEN 0 ELSE DotLazy(s, j + 2, <<")">>) + 1

LinkReplacement(s, i, e) ==
    LET j == LabelEnd(s, i + 1)
    IN  SubSeq(s, i + 1, j - 1) \o <<SP, "(">> \o SubSeq(s, j + 2, e - 2) \o <<")">>

\* 4. /!\[(.*?)\]\(.*?\)/g -> '$1'

ImageMatch(s, i) ==
    LET j == IF HasAt(s, i, <<"!", "[">>) THEN LabelEnd(s, i + 2) ELSE 0
    IN  IF j = 0 THEN 0 ELSE DotLazy(s, j + 2, <<")">>) + 1

ImageReplacement(s, i, e) == SubSeq(s, i + 2, LabelEnd(s, i + 2) - 1)

\* 5. inline code: a backtick, the group [^`]* (greedy, line terminators included)
\*    and a backtick, replaced by '$1'

InlineCodeMatch(s, i) ==
    LET j == IF HasAt(s, i, <<BT>>) THEN AnyLazy(s, i + 1, <<BT>>) ELSE 0
    IN  IF j = 0 THEN 0 ELSE j + 1

InlineCodeReplacement(s, i, e) == SubSeq(s, i + 1, e - 2)

\* 6. fenced code: three backticks, a lazy [\s\S]*? and three backticks, replaced
\*    by match.replace(F1, '').replace(F2, ''), neither with the g flag, where
\*    F1 is three backticks, a greedy .* and an optional \n, and F2 is three backticks

Fence == <<BT, BT, BT>>

FenceMatch(s, i) ==
    LET j == IF HasAt(s, i, Fence) THEN AnyLazy(s, i + 3, Fence) ELSE 0
    IN  IF j = 0 THEN 0 ELSE j + 3

\* a greedy ".*" from position i: the position after it
RECURSIVE DotRunEnd(_, _)
DotRunEnd(s, i) ==
    IF i <= Len(s) /\ s[i] \notin LineTerminators THEN DotRunEnd(s, i + 1) ELSE i

FenceOpenMatch(s, i) ==
    LET t == DotRunEnd(s, i + 3)
    IN  IF ~HasAt(s, i, Fence) THEN 0
        ELSE IF t <= Len(s) /\ s[t] = NL THEN t + 1 ELSE t

FenceCloseMatch(s, i) == IF HasAt(s, i, Fence) THEN i + 3 ELSE 0

\* 7. /^\s*>\s?/gm -> ''

BlockquoteMatch(s, i) ==
    LET h == RunEnd(s, i, Whitespace)
    IN  IF ~(AtLineStart(s, i) /\ HasAt(s, h, <<">">>)) THEN 0
        ELSE IF h + 1 <= Len(s) /\ s[h + 1] \in Whitespace THEN h + 2 ELSE h + 1

\* 8. /\|\s*/g -> ' ' and then / {2,}/g -> ' '

PipeMatch(s, i) ==
    IF HasAt(s, i, <<"|">>) THEN RunEnd(s, i + 1, Whitespace) ELSE 0

SpacesMatch(s, i) ==
    LET e == RunEnd(s, i, {SP})
    IN  IF e - i >= 2 THEN e ELSE 0

\* 9. /^\s*(-{3,}|\*{3,}|_{3,})\s*$/gm -> ''
\*    The trailing \s* is greedy and gives characters back until "$" holds: the
\*    match ends at the last position of the whitespace run that is a line end.

RuleChars == {"-", "*", "_"}

\* the greatest position p in lo..hi where "$" holds, or 0
RECURSIVE LastLineEnd(_, _, _)
LastLineEnd(s, lo, p) ==
    IF p < lo THEN 0
    ELSE IF AtLineEnd(s, p) THEN p
    ELSE LastLineEnd(s, lo, p - 1)

HorizontalRuleMatch(s, i) ==
    LET h == RunEnd(s, i, Whitespace)
        r == IF h <= Len(s) /\ s[h] \in RuleChars THEN RunEnd(s, h, {s[h]}) ELSE h
    IN  IF AtLineStart(s, i) /\ r - h >= 3
        THEN LastLineEnd(s, r, RunEnd(s, r, Whitespace))
        ELSE 0

\* 10. /\\(.)/g -> '$1'

EscapeMatch(s, i) ==
    IF HasAt(s, i, <<BS>>) /\ i + 1 <= Len(s) /\ s[i + 1] \notin LineTerminators
    THEN i + 2 ELSE 0

EscapeReplacement(s, i, e) == <<s[i + 1]>>

\* 11. /^\s*[-*+]\s+/gm -> '' and then /^\s*\d+\.\s+/gm -> ''

UnorderedMarkers == {"-", "*", "+"}

UnorderedMatch(s, i) ==
    LET h == RunEnd(s, i, Whitespace)
        w == RunEnd(s, h + 1, Whitespace)
    IN  IF AtLineStart(s, i) /\ h <= Len(s) /\ s[h] \in UnorderedMarkers /\ w > h + 1
        THEN w ELSE 0

OrderedMatch(s, i) ==
    LET h == RunEnd(s, i, Whitespace)
        d == RunEnd(s, h, Digits)
        w == RunEnd(s, d + 1, Whitespace)
    IN  IF AtLineStart(s, i) /\ d > h /\ HasAt(s, d, <<".">>) /\ w > d + 1
        THEN w ELSE 0

\* 12. /\n{3,}/g -> '\n\n'

\* the pattern with the bound off by one: /\n{4,}/
BlankLinesMatchFourOrMore(s, i) ==
    LET e == RunEnd(s, i, {NL})
    IN  IF e - i >= 4 THEN e ELSE 0

BlankLinesMatch(s, i) ==
    LET e == RunEnd(s, i, {NL})
    IN  IF e - i >= 3 THEN e ELSE 0

-----------------------------------------------------------------------------
(* String.prototype.replace *)

MatchEnd(rule, s, i) ==
    CASE rule = "heading"    -> HeadingMatch(s, i)
      [] rule = "strong"     -> StrongMatch(s, i)
      [] rule = "weak"       -> WeakMatch(s, i)
      [] rule = "link"       -> LinkMatch(s, i)
      [] rule = "image"      -> ImageMatch(s, i)
      [] rule = "inlineCode" -> InlineCodeMatch(s, i)
      [] rule = "fence"      -> FenceMatch(s, i)
      [] rule = "fenceOpen"  -> FenceOpenMatch(s, i)
      [] rule = "fenceClose" -> FenceCloseMatch(s, i)
      [] rule = "blockquote" -> BlockquoteMatch(s, i)
      [] rule = "pipe"       -> PipeMatch(s, i)
      [] rule = "spaces"     -> SpacesMatch(s, i)
      [] rule = "rule"       -> HorizontalRuleMatch(s, i)
      [] rule = "escape"     -> EscapeMatch(s, i)
      [] rule = "unordered"  -> UnorderedMatch(s, i)
      [] rule = "ordered"    -> OrderedMatch(s, i)
      [] rule = "blank"      -> BlankLinesMatch(s, i)

\* replace(re, r) without the g flag: the leftmost match alone is replaced by r
RECURSIVE ReplaceFirst(_, _, _, _)
ReplaceFirst(rule, s, r, i) ==
    LET e == MatchEnd(rule, s, i)
    IN  IF i > Len(s) THEN s
        ELSE IF e = 0 THEN ReplaceFirst(rule, s, r, i + 1)
        ELSE SubSeq(s, 1, i - 1) \o r \o SubSeq(s, e, Len(s))

\* the replacer function of the fenced code rule
FenceReplacer(match) ==
    ReplaceFirst("fenceClose", ReplaceFirst("fenceOpen", match, <<>>, 1), <<>>, 1)

Replacement(rule, s, i, e) ==
    CASE rule = "strong"     -> StrongReplacement(s, i, e)
      [] rule = "weak"       -> WeakReplacement(s, i, e)
      [] rule = "link"       -> LinkReplacement(s, i, e)
      [] rule = "image"      -> ImageReplacement(s, i, e)
      [] rule = "inlineCode" -> InlineCodeReplacement(s, i, e)
      [] rule = "fence"      -> FenceReplacer(SubSeq(s, i, e - 1))
      [] rule = "pipe"       -> <<SP>>
      [] rule = "spaces"     -> <<SP>>
      [] rule = "escape"     -> EscapeReplacement(s, i, e)
      [] rule = "blank"      -> <<NL, NL>>
      [] OTHER               -> HeadingReplacement(s, i, e)

\* replace(re, r) with the g flag, from position i on: every match, found leftmost
\* first and never overlapping, is replaced; "^", "$" and \1 look at s itself
RECURSIVE ReplaceAll(_, _, _)
ReplaceAll(rule, s, i) ==
    LET e == MatchEnd(rule, s, i)
    IN  IF i > Len(s) THEN <<>>
        ELSE IF e = 0 THEN <<s[i]>> \o ReplaceAll(rule, s, i + 1)
        ELSE Replacement(rule, s, i, e) \o ReplaceAll(rule, s, e)

\* String.prototype.trim
Trim(s) ==
    LET first == RunEnd(s, 1, Whitespace)
        RECURSIVE LastNonWs(_)
        LastNonWs(p) == IF p >= 1 /\ s[p] \in Whitespace THEN LastNonWs(p - 1) ELSE p
    IN  SubSeq(s, first, LastNonWs(Len(s)))

-----------------------------------------------------------------------------
(* markdownToHuman *)

\* the statements in another order: the image pass moved before the link pass
RulesImagesFirst ==
    << "heading", "strong", "weak", "image", "link", "inlineCode", "fence",
       "blockquote", "pipe", "spaces", "rule", "escape", "unordered", "ordered",
       "blank" >>

\* the statements of markdownToHuman that rewrite cleaned, in the order of the source
Rules ==
    << "heading", "strong", "weak", "link", "image", "inlineCode", "fence",
       "blockquote", "pipe", "spaces", "rule", "escape", "unordered", "ordered",
       "blank" >>

\* cleaned after the statements k, k+1, ... of Rules have run on s
RECURSIVE ApplyFrom(_, _)
ApplyFrom(s, k) ==
    IF k > Len(Rules) THEN s
    ELSE ApplyFrom(ReplaceAll(Rules[k], s, 1), k + 1)

\* the value undefined, which is no string: its one element is no character
Undefined == <<"undefined">>

\* markdownToHuman with the guard's return value forgotten: "if (!text) return;"
markdownToHumanNoValue(t) ==
    IF t = <<>> THEN Undefined ELSE Trim(ApplyFrom(t, 1))

markdownToHuman(t) ==
    IF t = <<>> THEN <<>> ELSE Trim(ApplyFrom(t, 1))

-----------------------------------------------------------------------------
(* getStats *)

\* the rational n / d, d > 0, rounded to the nearest integer, a half going away
\* from zero
RoundHalfAwayFromZero(n, d) ==
    IF n >= 0 THEN (2 * n + d) \div (2 * d) ELSE -((2 * (-n) + d) \div (2 * d))

\* the rational n / d, d > 0, rounded to the nearest integer, a half going to the
\* even neighbour
RoundHalfToEven(n, d) ==
    LET f == n \div d
        r == n - f * d
    IN  IF 2 * r < d THEN f
        ELSE IF 2 * r > d THEN f + 1
        ELSE IF f % 2 = 0 THEN f ELSE f + 1

\* Math.round of the rational n / d, d > 0: the nearest integer, a half going up
MathRound(n, d) == (2 * n + d) \div (2 * d)

\* getStats reporting the share that remains instead of the share removed
getStatsRemaining(original, cleaned) ==
    [ originalChars |-> Len(original),
      cleanedChars |-> Len(cleaned),
      reductionPercent |->
          IF Len(original) > 0 THEN MathRound(Len(cleaned) * 1000, Len(original))
          ELSE 0 ]

\* reductionPercent is held in tenths: the integer Math.round(reduction * 10), which
\* the source then divides by 10.  reduction * 10 is the rational
\* (originalChars - cleanedChars) * 1000 / originalChars; the double arithmetic of
\* the source gives the same integer for every originalChars below 80.
getStats(original, cleaned) ==
    LET originalChars == Len(original)
        cleanedChars == Len(cleaned)
    IN  [ originalChars |-> originalChars,
          cleanedChars |-> cleanedChars,
          reductionPercent |->
              IF originalChars > 0
              THEN MathRound((originalChars - cleanedChars) * 1000, originalChars)
              ELSE MathRound(0, 1) ]

-----------------------------------------------------------------------------
(* Inputs *)

\* the greatest length of the texts that are enumerated character by character
MaxLen == 3
\* the greatest length of an enumerated link target
MaxPart == 3
\* the greatest length of the marker run of a horizontal rule line
MaxRun == 5
\* the greatest length of the strings handed to getStats on their own
MaxChars == 20

Alphabet ==
    { "#", "*", "_", "[", "]", "(", ")", "!", BT, ">", "|", "-", "+", BS, "1", ".",
      SP, NL, TAB, "a" }

\* every text of at most n characters of the set A
Texts(A, n) == UNION { [1..k -> A] : k \in 0..n }

\* the character c, n times
Repeat(c, n) == [k \in 1..n |-> c]

\* words without Markdown syntax
Alt == <<"a", "l", "t">>
Docs == <<"D", "o", "c", "s">>
ImgPng == <<"i", "m", "g", ".", "p", "n", "g">>
ExampleUrl == <<"h", "t", "t", "p", "s", ":", "/", "/", "e", "x", "a", "m", "p", "l", "e", ".", "c", "o", "m">>
Bash == <<"b", "a", "s", "h">>
NpmStart == <<"n", "p", "m", SP, "s", "t", "a", "r", "t">>
NotItalic == <<"n", "o", "t", SP, "i", "t", "a", "l", "i", "c">>
Above == <<"a", "b", "o", "v", "e">>
Below == <<"b", "e", "l", "o", "w">>

\* the characters of the words
Letters ==
    { "a", "b", "c", "d", "e", "f", "g", "h", "i", "j", "k", "l", "m", "n",
      "o", "p", "q", "r", "s", "t", "u", "v", "w", "x", "y", "z", "B", "D",
      "T", ":", "/" }

Characters == Alphabet \cup Letters

\* text before and after an inline construct
Befores == { <<>>, <<"s", "e", "e", SP>> }
Afters == { <<>>, <<SP, "e", "n", "d">> }

Image(altText, target) == <<"!", "[">> \o altText \o <<"]", "(">> \o target \o <<")">>

ImageAlts == { Alt, <<"a">> }

ImageTargets == { ImgPng, <<"a">> }

ImageTexts ==
    { b \o Image(a, t) \o f :
        b \in Befores, f \in Afters, a \in ImageAlts, t \in ImageTargets }

Link(label, target) == <<"[">> \o label \o <<"]", "(">> \o target \o <<")">>

Labels == { Docs, <<"a">> }

\* targets without brackets and parentheses
LinkTargets == (Texts({"a", "_", "*", "."}, MaxPart) \ {<<>>}) \cup {ExampleUrl}

LinkTexts == { Link(l, t) : l \in Labels, t \in LinkTargets }

FencedBlock(lang, content) == Fence \o lang \o <<NL>> \o content \o <<NL>> \o Fence

Languages == { <<>>, Bash, <<"j", "s">> }

\* content lines without Markdown syntax
PlainContents == { NpmStart, <<"a">>, <<"a", NL, "b">> }

\* content lines that look like Markdown
MarkdownContents ==
    { <<"#", SP, "a">>, <<"*", "a", "*">>, <<"_", "_", "a", "_", "_">>,
      <<"[", "x", "]", "(", "y", ")">>, <<"-", SP, "a">>, <<"1", ".", SP, "a">>,
      <<"a", SP, "|", SP, "b">>, <<">", SP, "a">>, <<"a", SP, SP, "b">> }

FencedTexts ==
    { FencedBlock(l, c) : l \in Languages, c \in PlainContents \cup MarkdownContents }

RuleLine(lead, c, n, trail) == Above \o <<NL>> \o lead \o Repeat(c, n) \o trail \o <<NL>> \o Below

\* whitespace around the marker run of a rule line
Margins == { <<>>, <<SP>> }

RuleTexts ==
    { RuleLine(lead, c, n, trail) :
        lead \in Margins, c \in RuleChars, n \in 3..MaxRun, trail \in Margins }

Escaped(c, word) == <<BS, c>> \o word \o <<BS, c>>

EscapedChars == { "*", "_", "#", BS }

EscapedWords == { NotItalic, <<"a">> }

EscapedTexts == { Escaped(c, x) : c \in EscapedChars, x \in EscapedWords }

\* list items: the text before the item's line, the indentation, the marker, one
\* space and the item's text
ListItem(lead, indent, marker, item) == lead \o indent \o marker \o <<SP>> \o item

ItemOne == <<"i", "t", "e", "m", SP, "o", "n", "e">>
ItemTwo == <<"i", "t", "e", "m", SP, "t", "w", "o">>

ListMarkers == { <<"-">>, <<"*">>, <<"+">>, <<"1", ".">>, <<"2", ".">> }

ItemTexts == { ItemOne, <<"a">>, <<"a", "*", "b">> }

\* nothing, a line, and a line and a blank line
ListLeads == { <<>>, <<"x", NL>>, <<"x", NL, NL>> }

Indents == { <<>>, <<SP>> }

\* two items with the same marker on two lines
TwoItems(marker) ==
    ListItem(<<>>, <<>>, marker, ItemOne) \o <<NL>> \o ListItem(<<>>, <<>>, marker, ItemTwo)

ListTexts ==
    { ListItem(lead, indent, marker, item) :
        lead \in ListLeads, indent \in Indents, marker \in ListMarkers, item \in ItemTexts }
        \cup { TwoItems(marker) : marker \in ListMarkers }

\* headings: the text before the heading's line, the "#" run, the whitespace and
\* the text after it on the line, and the text after the line
Heading(before, hashes, title, after) == before \o hashes \o title \o after

Title == <<"T", "i", "t", "l", "e">>
Body == <<"B", "o", "d", "y">>

Hashes == { <<"#">>, <<"#", "#">> }

\* a heading with its text, and a bare "#" run
HeadingTitles == { <<SP>> \o Title, <<>> }

\* nothing, a line, and a line and a blank line
HeadingBefores == { <<>>, Body \o <<NL>>, Body \o <<NL, NL>> }

\* nothing, a line, and a blank line and a line
HeadingAfters == { <<>>, <<NL>> \o Body, <<NL, NL>> \o Body }

HeadingTexts ==
    { Heading(before, hashes, title, after) :
        before \in HeadingBefores, hashes \in Hashes, title \in HeadingTitles,
        after \in HeadingAfters }

\* two words with n line breaks between them, whitespace around the whole
BlankLines(lead, n, trail) == lead \o <<"a">> \o Repeat(NL, n) \o <<"b">> \o trail

\* whitespace at the ends of a text
Paddings == { <<>>, <<SP>>, <<NL>>, <<TAB, NL>> }

BlankTexts ==
    { BlankLines(lead, n, trail) : lead \in Paddings, n \in 1..MaxRun, trail \in Paddings }

Inputs ==
    Texts(Alphabet, MaxLen) \cup ImageTexts \cup LinkTexts \cup FencedTexts
        \cup RuleTexts \cup EscapedTexts \cup ListTexts \cup HeadingTexts \cup BlankTexts

\* the strings handed to getStats on their own
StatTexts == Texts({"a", "b"}, MaxLen) \cup Texts({"a"}, MaxChars)

-----------------------------------------------------------------------------
(* The caller: normalise the text, then compute the statistics of the pair *)

NoStats == [originalChars |-> 0, cleanedChars |-> 0, reductionPercent |-> 0]

\* App as mounted: the useState initial values, the effect of the first render due
AppMounted ==
    /\ inputMarkdown = <<>>
    /\ outputText = <<>>
    /\ effectPending = TRUE
    /\ isProcessing = FALSE
    /\ isPolishing = FALSE
    /\ polishText = <<>>
    /\ outputOrigin = <<>>
    /\ polishOrigin = <<>>

Init ==
    /\ text \in Inputs
    /\ result = <<>>
    /\ stats = NoStats
    /\ pc = "normalize"
    /\ AppMounted

Normalize ==
    /\ pc = "normalize"
    /\ result' = markdownToHuman(text)
    /\ pc' = "stats"
    /\ UNCHANGED <<text, stats, appVars>>

ComputeStats ==
    /\ pc = "stats"
    /\ stats' = getStats(text, result)
    /\ pc' = "done"
    /\ UNCHANGED <<text, result, appVars>>

Next == Normalize \/ ComputeStats

Spec == Init /\ [][Next]_vars

\* getStats on its own: every pair of strings of StatTexts
InitStats ==
    /\ text \in StatTexts
    /\ result \in StatTexts
    /\ stats = NoStats
    /\ pc = "stats"
    /\ AppMounted

NextStats == ComputeStats

SpecStats == InitStats /\ [][NextStats]_vars

-----------------------------------------------------------------------------
(* App: the component that calls markdownToHuman in an effect on inputMarkdown  *)
(* and getStats on every render, and that sends outputText to the AI polish     *)

\* the values typed or pasted into the input textarea
TypedTexts == { <<"a">>, <<"*", "b", "*">>, <<"#", SP, "a">> }

\* what generateSampleMarkdown resolves with: a Markdown sample, or '' when the
\* response holds no text
Samples == { <<>>, <<"#">> \o <<SP>> \o Title }

\* the longest outputText a polish response is modelled to lengthen
MaxOutput == 6

\* what smartPolishText(t) resolves with: the response's text, or t when the
\* response holds none
Polished(t) == {t} \cup (IF Len(t) < MaxOutput THEN { t \o <<".">> } ELSE {})

\* the pair getStats is called with on a render
StatsPair == <<inputMarkdown, outputText>>

\* setInputMarkdown(v): a state change schedules the effect, the same value does not
SetInputMarkdown(v) ==
    /\ inputMarkdown' = v
    /\ effectPending' = (effectPending \/ v # inputMarkdown)

\* the textarea's onChange
HandleInputChange ==
    \E v \in TypedTexts \cup {<<>>} :
        /\ v # inputMarkdown
        /\ SetInputMarkdown(v)
        /\ UNCHANGED <<outputText, isProcessing, isPolishing, polishText, outputOrigin,
                       polishOrigin, callVars>>

HandleClear ==
    /\ inputMarkdown # <<>>
    /\ SetInputMarkdown(<<>>)
    /\ UNCHANGED <<outputText, isProcessing, isPolishing, polishText, outputOrigin,
                   polishOrigin, callVars>>

\* the effect on [inputMarkdown]
ConvertEffect ==
    /\ effectPending
    /\ outputText' = markdownToHuman(inputMarkdown)
    /\ outputOrigin' = inputMarkdown
    /\ effectPending' = FALSE
    /\ UNCHANGED <<inputMarkdown, isProcessing, isPolishing, polishText, polishOrigin,
                   callVars>>

\* handleGenerateSample up to its await; the button is disabled while isProcessing
HandleGenerateSample ==
    /\ ~isProcessing
    /\ isProcessing' = TRUE
    /\ UNCHANGED <<inputMarkdown, outputText, effectPending, isPolishing, polishText,
                   outputOrigin, polishOrigin, callVars>>

\* handleGenerateSample after its await, the request fulfilled
SampleResolved ==
    \E sample \in Samples :
        /\ isProcessing
        /\ SetInputMarkdown(sample)
        /\ isProcessing' = FALSE
        /\ UNCHANGED <<outputText, isPolishing, polishText, outputOrigin, polishOrigin,
                       callVars>>

\* handleGenerateSample after its await, the request rejected
SampleRejected ==
    /\ isProcessing
    /\ isProcessing' = FALSE
    /\ UNCHANGED <<inputMarkdown, outputText, effectPending, isPolishing, polishText,
                   outputOrigin, polishOrigin, callVars>>

\* handleSmartPolish up to its await; the button is disabled while isPolishing and
\* while outputText is empty
HandleSmartPolish ==
    /\ outputText # <<>>
    /\ ~isPolishing
    /\ isPolishing' = TRUE
    /\ polishText' = outputText
    /\ polishOrigin' = outputOrigin
    /\ UNCHANGED <<inputMarkdown, outputText, effectPending, isProcessing, outputOrigin,
                   callVars>>

\* handleSmartPolish after its await, the request fulfilled
PolishResolved ==
    \E polished \in Polished(polishText) :
        /\ isPolishing
        /\ outputText' = polished
        /\ outputOrigin' = polishOrigin
        /\ isPolishing' = FALSE
        /\ UNCHANGED <<inputMarkdown, effectPending, isProcessing, polishText,
                       polishOrigin, callVars>>

\* handleSmartPolish after its await, the request rejected
PolishRejected ==
    /\ isPolishing
    /\ isPolishing' = FALSE
    /\ UNCHANGED <<inputMarkdown, outputText, effectPending, isProcessing, polishText,
                   outputOrigin, polishOrigin, callVars>>

InitApp ==
    /\ text = <<>>
    /\ result = <<>>
    /\ stats = NoStats
    /\ pc = "done"
    /\ AppMounted

NextApp ==
    \/ HandleClear
    \/ HandleInputChange
    \/ ConvertEffect
    \/ HandleGenerateSample
    \/ SampleResolved
    \/ SampleRejected
    \/ HandleSmartPolish
    \/ PolishResolved
    \/ PolishRejected

SpecApp == InitApp /\ [][NextApp]_vars

-----------------------------------------------------------------------------
(* Claims *)

\* markdownToHuman has returned
Returned == pc # "normalize"

\* the text p occurs in s
Contains(s, p) == \E i \in 1..(Len(s) - Len(p) + 1) : HasAt(s, i, p)

\* C1: markdownToHuman rewrites an image ![altText](target) into altText alone;
\* '![alt](img.png)' returns 'alt'.
C1_ImageBecomesAltText ==
    Returned =>
        \A b \in Befores, f \in Afters, a \in ImageAlts, t \in ImageTargets :
            text = b \o Image(a, t) \o f => result = b \o a \o f

\* C2: of a fenced code block markdownToHuman removes the opening fence line with
\* its language tag and the closing fence line and keeps the content lines; the
\* lines '```bash', 'npm start', '```' return 'npm start'.
C2_FenceLinesRemoved ==
    Returned =>
        \A l \in Languages, c \in PlainContents :
            text = FencedBlock(l, c) => result = c

\* C3: backslash-escaped Markdown tokens lose only their backslash and are not
\* consumed by the emphasis and list rules; '\*not italic\*' returns '*not italic*'.
C3_EscapedTokensSurvive ==
    Returned =>
        \A c \in EscapedChars, x \in EscapedWords :
            text = Escaped(c, x) => result = <<c>> \o x \o <<c>>

\* C4: markdownToHuman rewrites a link [label](target) into label (target), label
\* and target unchanged, for every label and target without brackets and
\* parentheses, targets holding "_" or "*" included.
C4_LinkKeepsLabelAndTarget ==
    (Returned /\ text \in LinkTexts) =>
        \A l \in Labels, t \in LinkTargets :
            text = Link(l, t) => result = l \o <<SP, "(">> \o t \o <<")">>

\* C5: markdownToHuman empties every line that is, whitespace around it ignored,
\* three or more of the same character among "-", "*" and "_": 'above', the rule
\* line, 'below' return 'above', an empty line, 'below'.
C5_RuleLineEmptied ==
    Returned =>
        \A lead \in Margins, c \in RuleChars, n \in 3..MaxRun, trail \in Margins :
            text = RuleLine(lead, c, n, trail) => result = Above \o <<NL, NL>> \o Below

\* C6: the content lines of a fenced code block appear in the output unchanged,
\* Markdown-like text among them included.
C6_FenceContentVerbatim ==
    Returned =>
        \A l \in Languages, c \in PlainContents \cup MarkdownContents :
            text = FencedBlock(l, c) => Contains(result, c)

\* C7: the link pass and the image pass commute: on every text, links then images
\* gives what images then links gives.
C7_LinkImageCommute ==
    Returned =>
        ReplaceAll("image", ReplaceAll("link", text, 1), 1)
            = ReplaceAll("link", ReplaceAll("image", text, 1), 1)

\* C8: markdownToHuman returns a string for every input, malformed Markdown
\* included, and the empty string for the empty input.
C8_Total ==
    Returned =>
        /\ result \in Seq(Characters)
        /\ text = <<>> => result = <<>>

\* an unterminated fence has been normalised
C8_Witness == pc = "done" /\ text = Fence /\ result = <<BT>>

C10_ZeroReduction ==
    pc = "done" =>
        /\ text = <<>> => stats.reductionPercent = 0
        /\ result = text =>
              /\ stats.reductionPercent = 0
              /\ stats.originalChars = Len(text)
              /\ stats.cleanedChars = Len(text)

\* the statistics of a non-empty string against itself
C10_Witness ==
    /\ pc = "done"
    /\ text = result
    /\ Len(text) = MaxLen
    /\ stats = [originalChars |-> MaxLen, cleanedChars |-> MaxLen, reductionPercent |-> 0]

\* C11: of a line that starts with optional whitespace, a list marker ("-", "*",
\* "+", or digits and ".") and spaces, markdownToHuman removes the marker alone: the
\* item's text is unchanged and on its own line, also when a "*" item holds a
\* further "*" and when a blank line precedes the item; '- item one', '- item two'
\* return 'item one', 'item two'.
C11_ListMarkerOnlyRemoved ==
    Returned =>
        /\ \A lead \in ListLeads, indent \in Indents, marker \in ListMarkers,
              item \in ItemTexts :
              text = ListItem(lead, indent, marker, item) => result = lead \o item
        /\ \A marker \in ListMarkers :
              text = TwoItems(marker) => result = ItemOne \o <<NL>> \o ItemTwo

\* the text t with the rules that follow the heading rule in every case applied:
\* runs of blank lines collapsed and the ends trimmed
Tidy(t) == Trim(ReplaceAll("blank", t, 1))

\* C12: the heading rule removes the marker prefix of the heading's line alone
\* (leading whitespace, the "#" run, the whitespace after it on the line): the
\* heading text and every line break are kept, the blank line between a paragraph
\* and a following heading and the one after a bare "#" run included;
\* '# Title', '', 'Body' return 'Title', '', 'Body'.
C12_HeadingMarkerOnlyRemoved ==
    Returned =>
        \A before \in HeadingBefores, hashes \in Hashes, title \in HeadingTitles,
           after \in HeadingAfters :
            text = Heading(before, hashes, title, after)
                => result = Tidy(before \o SubSeq(title, 2, Len(title)) \o after)

\* C13: the string markdownToHuman returns holds no run of three or more line
\* breaks and neither starts nor ends with whitespace.
C13_NoBlankRunNoMargin ==
    Returned =>
        /\ ~Contains(result, <<NL, NL, NL>>)
        /\ result # <<>> =>
              /\ result[1] \notin Whitespace
              /\ result[Len(result)] \notin Whitespace

\* four line breaks between two words, whitespace around them: two are left
C13_Witness ==
    /\ pc = "done"
    /\ text = BlankLines(<<TAB, NL>>, 4, <<SP>>)
    /\ result = <<"a", NL, NL, "b">>

\* one rule on its own, over the whole text
Pass(rule, t) == ReplaceAll(rule, t, 1)

\* the rules in the order of the specification, each over the whole text the one
\* before it produced, and the final trim
InSpecifiedOrder(t) ==
    LET t1  == Pass("heading", t)
        t2  == Pass("strong", t1)
        t3  == Pass("weak", t2)
        t4  == Pass("link", t3)
        t5  == Pass("image", t4)
        t6  == Pass("inlineCode", t5)
        t7  == Pass("fence", t6)
        t8  == Pass("blockquote", t7)
        t9  == Pass("spaces", Pass("pipe", t8))
        t10 == Pass("rule", t9)
        t11 == Pass("escape", t10)
        t12 == Pass("ordered", Pass("unordered", t11))
        t13 == Pass("blank", t12)
    IN  Trim(t13)

Settled == ~effectPending /\ ~isProcessing /\ ~isPolishing

\* C15: in App, after any interleaving of input edits, clear, sample generation and
\* polish requests and completions, once all effects have run getStats is called
\* with inputMarkdown and the text computed from that inputMarkdown: a polish
\* response that resolves after the input has changed does not leave outputText
\* derived from an older input.
C15_OutputFromCurrentInput == Settled => outputOrigin = inputMarkdown

====
